---- MODULE Spec2Model ----
(***************************************************************************)
(* A model of scripts/backfill-prepare.py, the AgentSense backfill         *)
(* preprocessor.  Text is modelled character by character: a Python str is *)
(* a sequence of one-character strings, so that len, slicing, strip, split *)
(* and the regular expressions of clean_text are computed as Python        *)
(* computes them.                                                          *)
(***************************************************************************)
EXTENDS Integers, Sequences, FiniteSets, TLC

VARIABLES
    mode,        \* what runs: main ("run") or one function ("chunk", "noise", "clean")
    pc,          \* position of the program (or of the function under test)
    args,        \* main: the parsed command line
    mem_glob,    \* process_memory_files: glob results not visited yet (repeats possible)
    seen_files,  \* process_memory_files: seen_files
    sess_files,  \* process_sessions: files not processed yet (basenames)
    cur_file,    \* process_session_file: basename
    lines_left,  \* process_session_file: number of lines of the open file not read yet
    lines_read,  \* the lines of the open file read so far, as parsed (the input)
    messages,    \* process_session_file: messages
    full_text,   \* process_session_file: full_text (empty when chunk_text was not called)
    file_chunks, \* process_sessions: file_chunks, what process_session_file returned
    all_chunks,  \* main: all_chunks, a sequence of <<text, source>>
    idx,         \* insert_observations: position of the loop in chunks
    inserted,    \* insert_observations: inserted
    attempts,    \* per INSERT executed, <<position in the batch, succeeded>>
    db_rows,     \* the observations table: rows staged by db.execute
    committed,   \* db.commit() was called
    reported,    \* the count printed at the end (-1: nothing printed)
    in_text,     \* function specifications: the text argument
    in_size,     \* function specifications: the chunk_size argument
    out          \* function specifications: the results

vars == <<mode, pc, args, mem_glob, seen_files, sess_files, cur_file, lines_left,
          lines_read, messages, full_text, file_chunks, all_chunks, idx, inserted,
          attempts, db_rows, committed, reported, in_text, in_size, out>>

-----------------------------------------------------------------------------
(* Python str primitives over sequences of characters.                     *)

\* The backquote character, which a TLA+ string literal cannot hold.
BQ == "BQ"

\* str * n for a one-character str.
Rep(c, n) == [i \in 1..n |-> c]

\* The characters str.strip() removes: every character c with c.isspace().
\* Those a string here cannot spell are written by their code point.
Whitespace ==
    { " ", "\n", "\t", "\r", "\f", "U+000B", "U+001C", "U+001D", "U+001E", "U+001F",
      "U+0085", "U+00A0", "U+1680", "U+2000", "U+2001", "U+2002", "U+2003", "U+2004",
      "U+2005", "U+2006", "U+2007", "U+2008", "U+2009", "U+200A", "U+2028", "U+2029",
      "U+202F", "U+205F", "U+3000" }

\* s[i:] with i counted from 1.
Tail_(s, i) == SubSeq(s, i, Len(s))

\* pat occurs in s at position i.
MatchAt(s, pat, i) ==
    /\ i >= 1
    /\ i + Len(pat) - 1 <= Len(s)
    /\ \A k \in 1..Len(pat) : s[i + k - 1] = pat[k]

\* s.find(pat, from): the least position >= from where pat occurs, 0 when none.
Find(s, pat, from) ==
    LET last == Len(s) - Len(pat) + 1
    IN IF \E i \in from..last : MatchAt(s, pat, i)
       THEN CHOOSE i \in from..last :
                MatchAt(s, pat, i) /\ \A j \in from..(i - 1) : ~MatchAt(s, pat, j)
       ELSE 0

\* pat in s
Contains(s, pat) == \E i \in 1..(Len(s) - Len(pat) + 1) : MatchAt(s, pat, i)

\* s.lstrip(), s.rstrip(), s.strip()
LStrip(s) ==
    IF \A i \in 1..Len(s) : s[i] \in Whitespace THEN <<>>
    ELSE Tail_(s, CHOOSE i \in 1..Len(s) :
                      s[i] \notin Whitespace /\ \A j \in 1..(i - 1) : s[j] \in Whitespace)

RStrip(s) ==
    IF \A i \in 1..Len(s) : s[i] \in Whitespace THEN <<>>
    ELSE SubSeq(s, 1, CHOOSE i \in 1..Len(s) :
                          s[i] \notin Whitespace
                          /\ \A j \in (i + 1)..Len(s) : s[j] \in Whitespace)

Strip(s) == RStrip(LStrip(s))

\* The elements of a sequence.
Range(s) == {s[i] : i \in 1..Len(s)}

\* sep.join(parts)
RECURSIVE Join(_, _)
Join(parts, sep) ==
    IF parts = <<>> THEN <<>>
    ELSE IF Len(parts) = 1 THEN parts[1]
    ELSE parts[1] \o sep \o Join(Tail(parts), sep)

\* s.split(sep): non-overlapping separators, left to right.
RECURSIVE Split(_, _)
Split(s, sep) ==
    LET i == Find(s, sep, 1)
    IN IF i = 0 THEN <<s>>
       ELSE <<SubSeq(s, 1, i - 1)>> \o Split(Tail_(s, i + Len(sep)), sep)

PARA_SEP == <<"\n", "\n">>

-----------------------------------------------------------------------------
(* Module constants.                                                       *)

CHUNK_SIZE == 6000
MIN_MSG_LEN == 80

-----------------------------------------------------------------------------
(* chunk_text                                                              *)

\* A variant of WouldExceed that forgets the separator's two characters.
WouldExceedNoSeparator(current, para, chunk_size) ==
    Len(current) + Len(para) > chunk_size

\* len(current) + len(para) + 2 > chunk_size
WouldExceed(current, para, chunk_size) ==
    Len(current) + Len(para) + 2 > chunk_size

\* The loop of chunk_text over the paragraphs not walked yet; acc is
\* [chunks, current].
RECURSIVE ChunkLoop(_, _, _, _)
ChunkLoop(paras, acc, source, chunk_size) ==
    IF paras = <<>> THEN acc
    ELSE LET para == Head(paras)
             current == acc.current
         IN IF WouldExceed(current, para, chunk_size) /\ current # <<>>
            THEN ChunkLoop(Tail(paras),
                           [chunks |-> Append(acc.chunks, <<Strip(current), source>>),
                            current |-> para],
                           source, chunk_size)
            ELSE ChunkLoop(Tail(paras),
                           [chunks |-> acc.chunks,
                            current |-> IF current # <<>>
                                        THEN current \o PARA_SEP \o para
                                        ELSE para],
                           source, chunk_size)

chunk_text(text, source, chunk_size) ==
    IF Len(text) <= chunk_size THEN << <<text, source>> >>
    ELSE LET acc == ChunkLoop(Split(text, PARA_SEP),
                              [chunks |-> <<>>, current |-> <<>>],
                              source, chunk_size)
         IN IF Strip(acc.current) # <<>>
            THEN Append(acc.chunks, <<Strip(acc.current), source>>)
            ELSE acc.chunks

-----------------------------------------------------------------------------
(* String literals of the program.                                         *)

KG_OPEN == <<"<", "k", "n", "o", "w", "l", "e", "d", "g", "e", "-", "g", "r", "a", "p", "h", "-", "c", "o", "n", "t", "e", "x", "t", ">">>
KG_CLOSE == <<"<", "/", "k", "n", "o", "w", "l", "e", "d", "g", "e", "-", "g", "r", "a", "p", "h", "-", "c", "o", "n", "t", "e", "x", "t", ">">>
FENCE_OPEN == <<BQ, BQ, BQ, "j", "s", "o", "n", "\n", "{">>
MESSAGE_ID == <<"\"", "m", "e", "s", "s", "a", "g", "e", "_", "i", "d", "\"">>
FENCE_CLOSE == <<"}", "\n", BQ, BQ, BQ>>
FR_OPEN == <<"<", "f", "u", "n", "c", "t", "i", "o", "n", "_", "r", "e", "s", "u", "l", "t", "s", ">">>
FR_CLOSE == <<"<", "/", "f", "u", "n", "c", "t", "i", "o", "n", "_", "r", "e", "s", "u", "l", "t", "s", ">">>
TOOL_OUTPUT == <<"[", "t", "o", "o", "l", " ", "o", "u", "t", "p", "u", "t", "]">>
TOOL_CALL_ID == <<"\"", "t", "o", "o", "l", "C", "a", "l", "l", "I", "d", "\"">>
NO_REPLY == <<"N", "O", "_", "R", "E", "P", "L", "Y">>
HEARTBEAT_OK == <<"H", "E", "A", "R", "T", "B", "E", "A", "T", "_", "O", "K">>
USER_LABEL == <<"[", "U", "s", "e", "r", "]", ":", " ">>
ASSISTANT_LABEL == <<"[", "A", "s", "s", "i", "s", "t", "a", "n", "t", "]", ":", " ">>
SESSION_TAG == <<"s", "e", "s", "s", "i", "o", "n", ":">>
MEMORY_TAG == <<"m", "e", "m", "o", "r", "y", ":">>

-----------------------------------------------------------------------------
(* is_noise                                                                *)

\* len(text) < MIN_MSG_LEN
TooShort(text) == Len(text) < MIN_MSG_LEN

\* text.strip().startswith("{") and '"toolCallId"' in text
LooksLikeToolCall(text) ==
    /\ MatchAt(Strip(text), <<"{">>, 1)
    /\ Contains(text, TOOL_CALL_ID)

\* A variant of HasContextTag that searches the whole text.
HasContextTagAnywhere(text) == Contains(text, KG_OPEN)

\* "<knowledge-graph-context>" in text[:100]
HasContextTag(text) ==
    Contains(SubSeq(text, 1, IF Len(text) < 100 THEN Len(text) ELSE 100), KG_OPEN)

\* text.strip() in ("NO_REPLY", "HEARTBEAT_OK")
IsSentinel(text) == Strip(text) \in {NO_REPLY, HEARTBEAT_OK}

is_noise(text) ==
    \/ TooShort(text)
    \/ LooksLikeToolCall(text)
    \/ HasContextTag(text)
    \/ IsSentinel(text)

-----------------------------------------------------------------------------
(* clean_text                                                              *)

\* re.sub(open + '.*?' + close, repl, s, flags=re.DOTALL): the leftmost open
\* that has a close after it, up to the first such close; then on from there.
RECURSIVE SubDelimited(_, _, _, _)
SubDelimited(s, open, close, repl) ==
    LET i == Find(s, open, 1)
        j == IF i = 0 THEN 0 ELSE Find(s, close, i + Len(open))
    IN IF j = 0 THEN s
       ELSE SubSeq(s, 1, i - 1) \o repl
            \o SubDelimited(Tail_(s, j + Len(close)), open, close, repl)

\* The last position of a match of
\*   ```json\n\{[^}]*"message_id"[^}]*\}\n```
\* that starts at i, 0 when there is none: [^}]* cannot cross a "}", so the
\* closing "}\n```" sits at the first "}" after the opening, with
\* "message_id" somewhere between.
FenceEnd(s, i) ==
    IF ~MatchAt(s, FENCE_OPEN, i) THEN 0
    ELSE LET k == Find(s, <<"}">>, i + Len(FENCE_OPEN))
         IN IF /\ k # 0
               /\ Contains(SubSeq(s, i + Len(FENCE_OPEN), k - 1), MESSAGE_ID)
               /\ MatchAt(s, FENCE_CLOSE, k)
            THEN k + Len(FENCE_CLOSE) - 1
            ELSE 0

\* re.sub(r'```json\n\{[^}]*"message_id"[^}]*\}\n```', '', s)
RECURSIVE SubFence(_)
SubFence(s) ==
    IF \A i \in 1..Len(s) : FenceEnd(s, i) = 0 THEN s
    ELSE LET i == CHOOSE x \in 1..Len(s) :
                      FenceEnd(s, x) # 0 /\ \A y \in 1..(x - 1) : FenceEnd(s, y) = 0
         IN SubSeq(s, 1, i - 1) \o SubFence(Tail_(s, FenceEnd(s, i) + 1))

\* re.sub(r'\n{3,}', '\n\n', s): every maximal run of three or more newlines.
RECURSIVE CollapseNewlines(_)
CollapseNewlines(s) ==
    LET i == Find(s, <<"\n", "\n", "\n">>, 1)
    IN IF i = 0 THEN s
       ELSE LET e == IF \A k \in i..Len(s) : s[k] = "\n" THEN Len(s) + 1
                     ELSE CHOOSE k \in i..Len(s) :
                              s[k] # "\n" /\ \A m \in i..(k - 1) : s[m] = "\n"
            IN SubSeq(s, 1, i - 1) \o PARA_SEP \o CollapseNewlines(Tail_(s, e))

clean_text(text) ==
    LET t1 == SubDelimited(text, KG_OPEN, KG_CLOSE, <<>>)
        t2 == SubFence(t1)
        t3 == SubDelimited(t2, FR_OPEN, FR_CLOSE, TOOL_OUTPUT)
        t4 == CollapseNewlines(t3)
    IN Strip(t4)

-----------------------------------------------------------------------------
(* Inputs of the function specifications.                                  *)

MaxLen == 6
MaxSize == 4
MaxPad == 6
MaxPieces == 4

\* Every sequence over S of length at most n.
SeqsUpTo(S, n) == UNION {[1..k -> S] : k \in 0..n}

\* Texts for chunk_text: a letter, a space and a newline, and shorter ones
\* with a form feed.
ChunkTexts ==
    SeqsUpTo({"a", " ", "\n"}, MaxLen) \cup SeqsUpTo({"a", "\f", "\n"}, MaxLen - 2)

Sources == {<<"m">>, <<"s">>}

\* Texts for is_noise: a fragment between two paddings whose lengths are
\* multiples of 25, so that a tag starts at 0, 25, 26, 50, ..., 150, ...
NoiseMids ==
    { <<>>, KG_OPEN, <<"x">> \o KG_OPEN, KG_OPEN \o KG_CLOSE,
      <<"{">> \o TOOL_CALL_ID, TOOL_CALL_ID, NO_REPLY, HEARTBEAT_OK,
      Rep("x", 4), Rep("x", 5) }

NoiseTexts ==
    { Rep(c, 25 * a) \o mid \o Rep(c, 25 * b) :
        c \in {"x", " ", "\f"}, a \in 0..MaxPad, b \in 0..MaxPad, mid \in NoiseMids }

\* Texts for clean_text: concatenations of tags, halves of tags and fillers.
KG_HEAD == SubSeq(KG_OPEN, 1, 11)
KG_TAIL == SubSeq(KG_OPEN, 12, 25)
FENCE_BLOCK == FENCE_OPEN \o MESSAGE_ID \o FENCE_CLOSE

CleanPieces ==
    { KG_OPEN, KG_CLOSE, KG_HEAD, KG_TAIL, FR_OPEN, FR_CLOSE, FENCE_BLOCK,
      <<"\n">>, <<"x">>, <<"\f">> }

CleanTexts == { Join(ps, <<>>) : ps \in SeqsUpTo(CleanPieces, MaxPieces) }

-----------------------------------------------------------------------------------------------------------------------------------------------------
(* The state of a program run, idle in the function specifications.        *)

NoArgs == [chunk_size |-> 0, dry_run |-> FALSE, memory_only |-> FALSE,
           sessions_only |-> FALSE, recent_days |-> 0]

RunIdle ==
    /\ args = NoArgs
    /\ mem_glob = <<>>
    /\ seen_files = {}
    /\ sess_files = <<>>
    /\ cur_file = <<>>
    /\ lines_left = 0
    /\ lines_read = <<>>
    /\ messages = <<>>
    /\ full_text = <<>>
    /\ file_chunks = <<>>
    /\ all_chunks = <<>>
    /\ idx = 0
    /\ inserted = 0
    /\ attempts = <<>>
    /\ db_rows = <<>>
    /\ committed = FALSE
    /\ reported = -1

runVars == <<args, mem_glob, seen_files, sess_files, cur_file, lines_left,
             lines_read, messages, full_text, file_chunks, all_chunks, idx,
             inserted, attempts, db_rows, committed, reported>>

-----------------------------------------------------------------------------
(* chunk_text applied to one input.                                        *)

InitChunk ==
    /\ mode = "chunk"
    /\ pc = "input"
    /\ in_text \in ChunkTexts
    /\ in_size \in 0..MaxSize
    /\ out = <<>>
    /\ RunIdle

CallChunkText ==
    /\ mode = "chunk"
    /\ pc = "input"
    /\ \E source \in Sources :
          out' = [source |-> source,
                  chunks |-> chunk_text(in_text, source, in_size)]
    /\ pc' = "done"
    /\ UNCHANGED <<mode, in_text, in_size, runVars>>

NextChunk == CallChunkText

ChunkSpec == InitChunk /\ [][NextChunk]_vars

(* is_noise applied to one input.                                          *)

InitNoise ==
    /\ mode = "noise"
    /\ pc = "input"
    /\ in_text \in NoiseTexts
    /\ in_size = 0
    /\ out = <<>>
    /\ RunIdle

CallIsNoise ==
    /\ mode = "noise"
    /\ pc = "input"
    /\ out' = [noise |-> is_noise(in_text)]
    /\ pc' = "done"
    /\ UNCHANGED <<mode, in_text, in_size, runVars>>

NextNoise == CallIsNoise

NoiseSpec == InitNoise /\ [][NextNoise]_vars

(* clean_text applied to one input, then to its own result.                *)

InitClean ==
    /\ mode = "clean"
    /\ pc = "input"
    /\ in_text \in CleanTexts
    /\ in_size = 0
    /\ out = <<>>
    /\ RunIdle

CallCleanText ==
    /\ mode = "clean"
    /\ pc = "input"
    /\ out' = <<clean_text(in_text)>>
    /\ pc' = "cleaned"
    /\ UNCHANGED <<mode, in_text, in_size, runVars>>

CallCleanTextAgain ==
    /\ mode = "clean"
    /\ pc = "cleaned"
    /\ out' = Append(out, clean_text(out[1]))
    /\ pc' = "done"
    /\ UNCHANGED <<mode, in_text, in_size, runVars>>

NextClean == CallCleanText \/ CallCleanTextAgain

CleanSpec == InitClean /\ [][NextClean]_vars

-----------------------------------------------------------------------------
(* Parsed JSON.  A value is a record with a tag t: "str" (v: characters),  *)
(* "num", "null", "list" (v: a sequence of values) or "object" (v: a       *)
(* function from the keys present to values).  A line json.loads rejects   *)
(* is [t |-> "invalid"].                                                   *)

JStr(chars) == [t |-> "str", v |-> chars]
JObj(fields) == [t |-> "object", v |-> fields]
JList(items) == [t |-> "list", v |-> items]
JNum == [t |-> "num"]
JInvalid == [t |-> "invalid"]
\* A line on which json.loads raises an exception that is no JSONDecodeError:
\* ValueError for an integer beyond the digit limit, RecursionError.
JRaises == [t |-> "raises"]

\* d.get(key, default) on a dict
Get(d, key, default) == IF key \in DOMAIN d.v THEN d.v[key] ELSE default

ROLE_USER == <<"u", "s", "e", "r">>
ROLE_ASSISTANT == <<"a", "s", "s", "i", "s", "t", "a", "n", "t">>
ROLE_SYSTEM == <<"s", "y", "s", "t", "e", "m">>
TYPE_TEXT == <<"t", "e", "x", "t">>
TYPE_TOOL_USE == <<"t", "o", "o", "l", "_", "u", "s", "e">>

-----------------------------------------------------------------------------
(* extract_text_from_content                                               *)

\* The texts list built by the loop over a list content: item.get("text", "")
\* of every dict item whose "type" is "text".
RECURSIVE TextParts(_)
TextParts(items) ==
    IF items = <<>> THEN <<>>
    ELSE LET item == Head(items)
         IN (IF item.t = "object" /\ Get(item, "type", JNum) = JStr(TYPE_TEXT)
             THEN <<Get(item, "text", JStr(<<>>))>>
             ELSE <<>>) \o TextParts(Tail(items))

\* [raised, text]: "\n".join(texts) raises TypeError when a part is no str.
extract_text_from_content(content) ==
    IF content.t = "str" THEN [raised |-> FALSE, text |-> content.v]
    ELSE IF content.t = "list"
    THEN LET parts == TextParts(content.v)
         IN IF \E k \in 1..Len(parts) : parts[k].t # "str"
            THEN [raised |-> TRUE, text |-> <<>>]
            ELSE [raised |-> FALSE,
                  text |-> Join([k \in 1..Len(parts) |-> parts[k].v], <<"\n">>)]
    ELSE [raised |-> FALSE, text |-> <<>>]

-----------------------------------------------------------------------------
(* process_session_file: the body of the loop over the lines.              *)

\* A variant of RoleLabel that labels every message as the user's.
RoleLabelAlwaysUser(role) == USER_LABEL

\* prefix = "User" if role == "user" else "Assistant"; f"[{prefix}]: "
RoleLabel(role) == IF role = JStr(ROLE_USER) THEN USER_LABEL ELSE ASSISTANT_LABEL

\* What one line does: "skip" (continue, also through the inner except),
\* "append" (messages.append(msg)) or "abort" (an exception the inner except
\* does not name, caught by the outer one: the function returns []).
ProcessLine(line) ==
    IF line.t = "invalid" THEN [kind |-> "skip"]             \* json.JSONDecodeError
    ELSE IF line.t = "raises" THEN [kind |-> "abort"]        \* ValueError, RecursionError
    ELSE IF line.t # "object" THEN [kind |-> "abort"]        \* obj.get: AttributeError
    ELSE LET msg == Get(line, "message", line)
         IN IF msg.t # "object" THEN [kind |-> "abort"]      \* msg.get: AttributeError
            ELSE LET role == Get(msg, "role", JStr(<<>>))
                     content == Get(msg, "content", JStr(<<>>))
                     got == extract_text_from_content(content)
                     text == clean_text(got.text)
                 IN IF role \notin {JStr(ROLE_USER), JStr(ROLE_ASSISTANT)}
                    THEN [kind |-> "skip"]
                    ELSE IF got.raised THEN [kind |-> "abort"]   \* TypeError
                    ELSE IF is_noise(got.text) THEN [kind |-> "skip"]
                    ELSE IF Len(text) >= MIN_MSG_LEN
                    THEN [kind |-> "append", msg |-> RoleLabel(role) \o text]
                    ELSE [kind |-> "skip"]

-----------------------------------------------------------------------------
(* The files and the command lines of a run.                               *)

MaxLines == 2

A_MD == <<"a", ".", "m", "d">>
ARCHIVE_B_MD == <<"a", "r", "c", "h", "i", "v", "e", "/", "b", ".", "m", "d">>
S1_JSONL == <<"s", "1", ".", "j", "s", "o", "n", "l">>
S2_JSONL == <<"s", "2", ".", "j", "s", "o", "n", "l">>

\* What the four glob patterns of process_memory_files return, in order, for
\* a memory directory holding the files of dir: a.md matches "*.md";
\* archive/b.md matches "archive/*.md" and "archive/**/*.md" (recursive).
GlobMemory(dir) ==
    (IF A_MD \in dir THEN <<A_MD>> ELSE <<>>)
    \o (IF ARCHIVE_B_MD \in dir THEN <<ARCHIVE_B_MD, ARCHIVE_B_MD>> ELSE <<>>)

\* The contents a memory file may have.
MemContents ==
    { Rep("a", 40) \o PARA_SEP \o Rep("b", 40),
      KG_OPEN \o Rep("k", 29) \o KG_CLOSE,
      Rep(" ", 75) \o Rep("a", 10),
      Rep("x", 70) \o FR_OPEN \o <<"r">> \o FR_CLOSE
          \o Rep("\n", 4) \o Rep("y", 10) \o <<"\n">> }

\* The memory directories: empty, or holding one file.
MemDirs == { {}, {A_MD}, {ARCHIVE_B_MD} }

\* The session files of the sessions directory, with their age in days.
SessionFile(name, age, gone) == [name |-> name, age |-> age, gone |-> gone]

\* What glob returns for the sessions directory, in the order of the
\* directory: two files of different ages, two files of one age, and a file
\* next to a link whose target is gone (getmtime raises).
SessionGlobs ==
    { << SessionFile(S1_JSONL, 1, FALSE), SessionFile(S2_JSONL, 30, FALSE) >>,
      << SessionFile(S2_JSONL, 30, FALSE), SessionFile(S1_JSONL, 1, FALSE) >>,
      << SessionFile(S1_JSONL, 30, FALSE), SessionFile(S2_JSONL, 30, FALSE) >>,
      << SessionFile(S2_JSONL, 30, FALSE), SessionFile(S1_JSONL, 30, FALSE) >>,
      << SessionFile(S1_JSONL, 1, FALSE), SessionFile(S2_JSONL, 30, TRUE) >> }

\* The lines a session file may hold.
LINE_USER ==
    JObj([message |-> JObj([role |-> JStr(ROLE_USER),
                            content |-> JStr(Rep("u", 80))])])
LINE_ASSISTANT ==
    JObj([role |-> JStr(ROLE_ASSISTANT),
          content |-> JList(<< JObj([type |-> JStr(TYPE_TEXT), text |-> JStr(Rep("a", 40))]),
                               JObj([type |-> JStr(TYPE_TOOL_USE)]),
                               JStr(Rep("z", 3)),
                               JObj([type |-> JStr(TYPE_TEXT), text |-> JStr(Rep("b", 40))]) >>)])
LINE_SYSTEM ==
    JObj([message |-> JObj([role |-> JStr(ROLE_SYSTEM),
                            content |-> JStr(Rep("s", 80))])])
LINE_SHRINKS ==
    JObj([message |-> JObj([role |-> JStr(ROLE_USER),
                            content |-> JStr(Rep("x", 76) \o KG_OPEN \o KG_CLOSE)])])
LINE_NOISE ==
    JObj([message |-> JObj([role |-> JStr(ROLE_ASSISTANT),
                            content |-> JStr(KG_OPEN \o Rep("k", 80))])])
\* A text part whose "text" is a number: "\n".join raises TypeError.
LINE_TEXT_NOT_STR ==
    JObj([role |-> JStr(ROLE_USER),
          content |-> JList(<< JObj([type |-> JStr(TYPE_TEXT), text |-> JNum]) >>)])
LINE_NOT_JSON == JInvalid
LINE_HUGE_INT == JRaises
LINE_ARRAY == JList(<<JNum>>)
LINE_MESSAGE_STR == JObj([message |-> JStr(Rep("m", 3))])

SessionLines ==
    { LINE_USER, LINE_ASSISTANT, LINE_SYSTEM, LINE_SHRINKS, LINE_NOISE,
      LINE_NOT_JSON, LINE_ARRAY, LINE_MESSAGE_STR, LINE_TEXT_NOT_STR,
      LINE_HUGE_INT }

\* ProcessLine on the lines above, tabulated.
LineOutcome == [line \in SessionLines |-> ProcessLine(line)]

\* argparse: the command lines.
Args(chunk_size, dry_run, memory_only, sessions_only, recent_days) ==
    [chunk_size |-> chunk_size, dry_run |-> dry_run, memory_only |-> memory_only,
     sessions_only |-> sessions_only, recent_days |-> recent_days]

ArgsSet ==
    { Args(CHUNK_SIZE, FALSE, FALSE, TRUE, 0),      \* --sessions-only
      Args(CHUNK_SIZE, FALSE, FALSE, FALSE, 7),     \* --recent-days 7
      Args(CHUNK_SIZE, TRUE, FALSE, FALSE, 7),      \* --dry-run --recent-days 7
      Args(CHUNK_SIZE, FALSE, TRUE, FALSE, 0),      \* --memory-only
      Args(CHUNK_SIZE, FALSE, FALSE, TRUE, 7),      \* --sessions-only --recent-days 7
      Args(CHUNK_SIZE, FALSE, TRUE, TRUE, 0),       \* --memory-only --sessions-only
      Args(50, FALSE, FALSE, FALSE, 7),             \* --chunk-size 50 --recent-days 7
      Args(50, TRUE, TRUE, FALSE, 0) }              \* --chunk-size 50 --dry-run --memory-only

\* files without its i-th element.
Without(files, i) == SubSeq(files, 1, i - 1) \o SubSeq(files, i + 1, Len(files))

\* sorted(files, key=os.path.getmtime, reverse=True): newest first; the sort
\* is stable, files of one mtime keep the order glob gave them.
RECURSIVE NewestFirst(_)
NewestFirst(files) ==
    IF files = <<>> THEN <<>>
    ELSE LET i == CHOOSE i \in 1..Len(files) :
                      /\ \A j \in 1..Len(files) : files[i].age <= files[j].age
                      /\ \A j \in 1..(i - 1) : files[j].age > files[i].age
         IN <<files[i]>> \o NewestFirst(Without(files, i))

\* files cut at the recency cutoff.
RECURSIVE WithinDays(_, _)
WithinDays(files, recent_days) ==
    IF files = <<>> THEN <<>>
    ELSE (IF Head(files).age <= recent_days THEN <<Head(files)>> ELSE <<>>)
            \o WithinDays(Tail(files), recent_days)

\* os.path.getmtime raises for a file that cannot be stat'ed.
GetmtimeRaises(files) == \E k \in 1..Len(files) : files[k].gone

\* The files process_sessions walks: sorted, then cut at the recency cutoff
\* when recent_days is given (None and 0 are both falsy).
SessionsToProcess(files, recent_days) ==
    LET sorted == NewestFirst(files)
        kept == IF recent_days # 0 THEN WithinDays(sorted, recent_days) ELSE sorted
    IN [k \in 1..Len(kept) |-> kept[k].name]

TODAY == <<"2", "0", "2", "6", "0", "1", "0", "1">>
BACKFILL_TAG == <<"b", "a", "c", "k", "f", "i", "l", "l", ":">>
BACKFILL_KEY == <<"b", "a", "c", "k", "f", "i", "l", "l", "-">>

\* The row one INSERT stages.
Row(chunk) ==
    [source |-> BACKFILL_TAG \o chunk[2], raw_text |-> chunk[1],
     entities_json |-> <<>>, session_key |-> BACKFILL_KEY \o TODAY]

\* A variant of InsertedAfter that counts the pass whether or not the INSERT
\* raised.
InsertedAfterAlways(n, ok) == n + 1

\* inserted after one pass of the loop body: inserted += 1 comes after
\* db.execute inside the try.
InsertedAfter(n, ok) == IF ok THEN n + 1 ELSE n

-----------------------------------------------------------------------------
(* A run of main.                                                          *)

fnVars == <<in_text, in_size, out>>

Init ==
    /\ mode = "run"
    /\ pc = "start"
    /\ args \in ArgsSet
    /\ mem_glob = <<>>
    /\ seen_files = {}
    /\ sess_files = <<>>
    /\ cur_file = <<>>
    /\ lines_left = 0
    /\ lines_read = <<>>
    /\ messages = <<>>
    /\ full_text = <<>>
    /\ file_chunks = <<>>
    /\ all_chunks = <<>>
    /\ idx = 0
    /\ inserted = 0
    /\ attempts = <<>>
    /\ db_rows = <<>>
    /\ committed = FALSE
    /\ reported = -1
    /\ in_text = <<>>
    /\ in_size = 0
    /\ out = <<>>

sessVars == <<sess_files, cur_file, lines_left, lines_read, messages, full_text,
              file_chunks>>
dbVars == <<idx, inserted, attempts, db_rows, committed, reported>>

\* main: the memory files are processed unless --sessions-only.
StartMemory ==
    /\ mode = "run" /\ pc = "start"
    /\ \/ /\ ~args.sessions_only
          /\ \E dir \in MemDirs : mem_glob' = GlobMemory(dir)
          /\ pc' = "memory"
       \/ /\ args.sessions_only
          /\ mem_glob' = mem_glob
          /\ pc' = "sessions_start"
    /\ UNCHANGED <<mode, args, seen_files, sessVars, all_chunks, dbVars, fnVars>>

\* process_memory_files: one pass of the loop over the glob results.
ProcessMemoryFile ==
    /\ mode = "run" /\ pc = "memory" /\ mem_glob # <<>>
    /\ LET filepath == Head(mem_glob)
       IN \/ /\ filepath \in seen_files                    \* continue
             /\ UNCHANGED <<seen_files, all_chunks>>
          \/ /\ filepath \notin seen_files                 \* open or read raises
             /\ seen_files' = seen_files \cup {filepath}
             /\ UNCHANGED all_chunks
          \/ /\ filepath \notin seen_files
             /\ seen_files' = seen_files \cup {filepath}
             /\ \E text \in MemContents :
                   IF Len(Strip(text)) < MIN_MSG_LEN
                   THEN UNCHANGED all_chunks
                   ELSE all_chunks' = all_chunks
                            \o chunk_text(clean_text(text), MEMORY_TAG \o filepath,
                                          CHUNK_SIZE)
    /\ mem_glob' = Tail(mem_glob)
    /\ UNCHANGED <<mode, pc, args, sessVars, dbVars, fnVars>>

EndMemory ==
    /\ mode = "run" /\ pc = "memory" /\ mem_glob = <<>>
    /\ seen_files' = {}
    /\ pc' = "sessions_start"
    /\ UNCHANGED <<mode, args, mem_glob, sessVars, all_chunks, dbVars, fnVars>>

\* main: the session logs are processed unless --memory-only; process_sessions
\* lists, sorts and filters the files.
StartSessions ==
    /\ mode = "run" /\ pc = "sessions_start"
    /\ \/ /\ ~args.memory_only
          /\ \E files \in SessionGlobs :
                IF GetmtimeRaises(files)
                THEN /\ sess_files' = sess_files
                     /\ pc' = "crashed"
                ELSE /\ sess_files' = SessionsToProcess(files, args.recent_days)
                     /\ pc' = "sessions"
       \/ /\ args.memory_only
          /\ sess_files' = sess_files
          /\ pc' = "totals"
    /\ UNCHANGED <<mode, args, mem_glob, seen_files, cur_file, lines_left, lines_read,
                   messages, full_text, file_chunks, all_chunks, dbVars, fnVars>>

\* process_session_file: open the file, or fail to (the outer except returns []).
OpenSessionFile ==
    /\ mode = "run" /\ pc = "sessions" /\ sess_files # <<>>
    /\ cur_file' = Head(sess_files)
    /\ messages' = <<>>
    /\ lines_read' = <<>>
    /\ full_text' = <<>>
    /\ file_chunks' = <<>>
    /\ \/ /\ \E n \in 0..MaxLines : lines_left' = n
          /\ pc' = "reading"
       \/ /\ lines_left' = 0
          /\ pc' = "file_done"
    /\ UNCHANGED <<mode, args, mem_glob, seen_files, sess_files, all_chunks, dbVars, fnVars>>

\* process_session_file: one pass of the loop over the lines.
ReadLine ==
    /\ mode = "run" /\ pc = "reading" /\ lines_left > 0
    /\ \E line \in SessionLines :
          LET r == LineOutcome[line]
          IN /\ lines_read' = Append(lines_read, line)
             /\ messages' = IF r.kind = "append" THEN Append(messages, r.msg)
                            ELSE messages
             /\ lines_left' = lines_left - 1
             /\ pc' = IF r.kind = "abort" THEN "file_done" ELSE "reading"
    /\ UNCHANGED <<mode, args, mem_glob, seen_files, sess_files, cur_file, full_text,
                   file_chunks, all_chunks, dbVars, fnVars>>

\* process_session_file: after the last line, join the messages and chunk.
FinishSessionFile ==
    /\ mode = "run" /\ pc = "reading" /\ lines_left = 0
    /\ IF messages = <<>>
       THEN UNCHANGED <<full_text, file_chunks>>
       ELSE /\ full_text' = Join(messages, PARA_SEP)
            /\ file_chunks' = chunk_text(full_text', SESSION_TAG \o cur_file, CHUNK_SIZE)
    /\ pc' = "file_done"
    /\ UNCHANGED <<mode, args, mem_glob, seen_files, sess_files, cur_file, lines_left,
                   lines_read, messages, all_chunks, dbVars, fnVars>>

\* process_sessions: chunks.extend(file_chunks), next file; the locals of the
\* finished call are gone.
ExtendSessionChunks ==
    /\ mode = "run" /\ pc = "file_done"
    /\ all_chunks' = all_chunks \o file_chunks
    /\ sess_files' = Tail(sess_files)
    /\ cur_file' = <<>>
    /\ lines_left' = 0
    /\ lines_read' = <<>>
    /\ messages' = <<>>
    /\ full_text' = <<>>
    /\ file_chunks' = <<>>
    /\ pc' = "sessions"
    /\ UNCHANGED <<mode, args, mem_glob, seen_files, dbVars, fnVars>>

EndSessions ==
    /\ mode = "run" /\ pc = "sessions" /\ sess_files = <<>>
    /\ pc' = "totals"
    /\ UNCHANGED <<mode, args, mem_glob, seen_files, sessVars, all_chunks, dbVars, fnVars>>

\* main: the totals, and the pending count when the database file exists (a
\* query that can raise, which ends the run).
CheckPending ==
    /\ mode = "run" /\ pc = "totals"
    /\ \/ pc' = "insert_start"
       \/ pc' = "crashed"
    /\ UNCHANGED <<mode, args, mem_glob, seen_files, sessVars, all_chunks, dbVars, fnVars>>

\* insert_observations(dry_run=True): a report, nothing written.
DryRun ==
    /\ mode = "run" /\ pc = "insert_start" /\ args.dry_run
    /\ pc' = "done"
    /\ UNCHANGED <<mode, args, mem_glob, seen_files, sessVars, all_chunks, dbVars, fnVars>>

\* insert_observations: sqlite3.connect, whose failure is not caught.
Connect ==
    /\ mode = "run" /\ pc = "insert_start" /\ ~args.dry_run
    /\ \/ /\ pc' = "insert"
          /\ idx' = 1
       \/ /\ pc' = "crashed"
          /\ idx' = idx
    /\ inserted' = 0
    /\ UNCHANGED <<mode, args, mem_glob, seen_files, sessVars, all_chunks, attempts,
                   db_rows, committed, reported, fnVars>>

\* insert_observations: one pass of the loop, the INSERT succeeding or raising.
InsertOne ==
    /\ mode = "run" /\ pc = "insert" /\ idx <= Len(all_chunks)
    /\ \E ok \in BOOLEAN :
          /\ db_rows' = IF ok THEN Append(db_rows, Row(all_chunks[idx])) ELSE db_rows
          /\ inserted' = InsertedAfter(inserted, ok)
          /\ attempts' = Append(attempts, <<idx, ok>>)
    /\ idx' = idx + 1
    /\ UNCHANGED <<mode, pc, args, mem_glob, seen_files, sessVars, all_chunks, committed,
                   reported, fnVars>>

\* insert_observations: db.commit(), db.close() and the final count; or
\* db.commit() raises (the database is locked), nothing is stored or printed
\* and the run ends with the exception.
Commit ==
    /\ mode = "run" /\ pc = "insert" /\ idx > Len(all_chunks)
    /\ \/ /\ committed' = TRUE
          /\ reported' = inserted
          /\ db_rows' = db_rows
          /\ pc' = "done"
       \/ /\ committed' = committed
          /\ reported' = reported
          /\ db_rows' = <<>>
          /\ pc' = "crashed"
    /\ UNCHANGED <<mode, args, mem_glob, seen_files, sessVars, all_chunks, idx, inserted,
                   attempts, fnVars>>

Next ==
    \/ StartMemory
    \/ ProcessMemoryFile
    \/ EndMemory
    \/ StartSessions
    \/ OpenSessionFile
    \/ ReadLine
    \/ FinishSessionFile
    \/ ExtendSessionChunks
    \/ EndSessions
    \/ CheckPending
    \/ DryRun
    \/ Connect
    \/ InsertOne
    \/ Commit

Spec == Init /\ [][Next]_vars

\* The run is one sequential process: while a step is possible, one is taken.
FairSpec == Spec /\ WF_vars(Next)

-----------------------------------------------------------------------------
(* Properties of chunk_text (ChunkSpec).                                   *)

\* The texts of a sequence of <<text, source>> chunks.
TextsOf(chunks) == [k \in 1..Len(chunks) |-> chunks[k][1]]

ChunkDone == mode = "chunk" /\ pc = "done"

\* C1: every chunk chunk_text emits either is no longer than the limit or is
\* one paragraph of the input (between double-newline separators, with its
\* surrounding whitespace trimmed as every emitted chunk is) that is itself
\* longer than the limit; and every paragraph longer than the limit is
\* emitted as a chunk of its own, neither split nor merged with another.
C1_ChunkWithinLimitOrOneParagraph ==
    ChunkDone =>
        LET paras == Split(in_text, PARA_SEP)
            texts == TextsOf(out.chunks)
        IN /\ \A k \in 1..Len(texts) :
                 \/ Len(texts[k]) <= in_size
                 \/ \E i \in 1..Len(paras) :
                       Len(paras[i]) > in_size /\ texts[k] = Strip(paras[i])
           /\ \A i \in 1..Len(paras) :
                 (Len(paras[i]) > in_size /\ Strip(paras[i]) # <<>>)
                    => \E k \in 1..Len(texts) : texts[k] = Strip(paras[i])

\* An oversized paragraph emitted whole, next to other chunks.
C1_Witness ==
    /\ ChunkDone
    /\ Len(out.chunks) >= 2
    /\ \E k \in 1..Len(out.chunks) :
          /\ Len(out.chunks[k][1]) > in_size
          /\ out.chunks[k][1] \in Range(Split(in_text, PARA_SEP))

\* C2: for a text whose paragraphs all fit the limit, joining the emitted
\* chunks in order with the paragraph separator gives back the trimmed input
\* exactly.
C2_JoinReproducesInput ==
    ChunkDone =>
        LET paras == Split(in_text, PARA_SEP)
        IN (\A i \in 1..Len(paras) : Len(paras[i]) <= in_size)
              => Join(TextsOf(out.chunks), PARA_SEP) = Strip(in_text)

\* C6: for a text shorter than the limit chunk_text yields exactly one chunk,
\* whose text is the trimmed input and whose source is the given provenance.
C6_ShortTextOneTrimmedChunk ==
    (ChunkDone /\ Len(in_text) < in_size)
        => out.chunks = << <<Strip(in_text), out.source>> >>

-----------------------------------------------------------------------------
(* Properties of is_noise (NoiseSpec) and of clean_text (CleanSpec).       *)

NoiseDone == mode = "noise" /\ pc = "done"

\* The positions (from 1) at which the opening tag starts in text.
TagStarts(text) == {p \in 1..Len(text) : MatchAt(text, KG_OPEN, p)}

\* C9: a text shorter than the minimum length (79 against 80) is rejected
\* whatever it holds; a text of at least the minimum length is rejected
\* whenever an opening knowledge-graph-context tag lies within its first 100
\* characters (the whole tag, since text[:100] has to contain it); and a tag that appears only beyond the first 100 characters
\* does not cause rejection when no other rule applies.
C9_NoiseTagRule ==
    NoiseDone =>
        /\ Len(in_text) < MIN_MSG_LEN => out.noise
        /\ (/\ Len(in_text) >= MIN_MSG_LEN
            /\ \E p \in TagStarts(in_text) : p + Len(KG_OPEN) - 1 <= 100)
              => out.noise
        /\ (/\ Len(in_text) >= MIN_MSG_LEN
            /\ TagStarts(in_text) # {}
            /\ \A p \in TagStarts(in_text) : p > 100
            /\ ~LooksLikeToolCall(in_text)
            /\ ~IsSentinel(in_text))
              => ~out.noise

\* A text with the tag at character 150 only, which is not rejected.
C9_Witness ==
    /\ NoiseDone
    /\ Len(in_text) >= MIN_MSG_LEN
    /\ TagStarts(in_text) = {151}
    /\ ~out.noise

\* C7: cleaning is idempotent: clean_text of a cleaned text is that text.
C7_CleanIdempotent ==
    (mode = "clean" /\ pc = "done") => out[2] = out[1]

-----------------------------------------------------------------------------
(* Properties of a run (Spec).                                             *)

\* A line that does not parse, or lacks the expected shape.
Malformed(line) ==
    \/ line.t # "object"     \* not JSON, json.loads raises, or no object
    \/ Get(line, "message", line).t # "object"

\* C3: a malformed line of a session file is skipped on its own: when
\* process_session_file returns, every message it had retained from the
\* other lines is in the chunks it returns.
C3_MalformedLineSkipped ==
    (/\ mode = "run" /\ pc = "file_done"
     /\ \E k \in 1..Len(lines_read) : Malformed(lines_read[k]))
        => \A m \in 1..Len(messages) :
              \E c \in 1..Len(file_chunks) : Contains(file_chunks[c][1], messages[m])

\* The INSERTs that succeeded, and those that raised.
Succeeded == {k \in 1..Len(attempts) : attempts[k][2]}
Failed == {k \in 1..Len(attempts) : ~attempts[k][2]}

\* The rows of the chunks at the positions of ks, in batch order.
RECURSIVE RowsOf(_, _)
RowsOf(chunks, ks) ==
    IF chunks = <<>> THEN <<>>
    ELSE RowsOf(SubSeq(chunks, 1, Len(chunks) - 1), ks)
         \o (IF Len(chunks) \in ks THEN <<Row(chunks[Len(chunks)])>> ELSE <<>>)

\* The commit step was taken: db.commit() was called after the whole batch.
CommitReached ==
    /\ pc \in {"done", "crashed"}
    /\ Len(attempts) = Len(all_chunks)

\* The bookkeeping of the insert loop: the chunks are attempted once each in
\* batch order, the run ends with an exception only before the first INSERT
\* or in db.commit() after the last, never between two INSERTs, and when the
\* run is done the commit was made, every chunk was attempted, and the
\* reported count is the number of INSERTs that succeeded (the batch size
\* minus the failures), which is the number of rows stored.
InsertBatchConsistent ==
    mode = "run" =>
        /\ \A k \in 1..Len(attempts) : attempts[k][1] = k
        /\ pc = "insert" => Len(attempts) = idx - 1 /\ inserted = Cardinality(Succeeded)
        /\ pc = "crashed" =>
              /\ attempts = <<>> \/ Len(attempts) = Len(all_chunks)
              /\ ~committed /\ reported = -1
        /\ (pc = "done" /\ ~args.dry_run) =>
              /\ committed
              /\ Len(attempts) = Len(all_chunks)
              /\ reported = Cardinality(Succeeded)
              /\ reported = Len(all_chunks) - Cardinality(Failed)
              /\ db_rows = RowsOf(all_chunks, Succeeded)

\* C4: in a run that is no dry run, an INSERT that raises does not end the
\* batch: every chunk is attempted exactly once in batch order, a run that
\* has entered the insert loop always reaches the commit step, and the count
\* reported after the commit is the number of INSERTs that succeeded.
C4_InsertFailuresDoNotAbort ==
    /\ []InsertBatchConsistent
    /\ (mode = "run" /\ pc = "insert") ~> CommitReached

\* A finished batch in which an INSERT raised and a later one succeeded.
C4_Witness ==
    /\ mode = "run" /\ pc = "done" /\ committed
    /\ \E i, j \in 1..Len(attempts) : i < j /\ ~attempts[i][2] /\ attempts[j][2]
    /\ reported < Len(all_chunks)

\* C5: every chunk of a run is no larger than the configured --chunk-size,
\* except a chunk that is a single paragraph.
C5_ConfiguredChunkSize ==
    mode = "run" =>
        \A k \in 1..Len(all_chunks) :
            \/ Len(all_chunks[k][1]) <= args.chunk_size
            \/ ~Contains(all_chunks[k][1], PARA_SEP)

\* C10: no chunk of a run has an empty or whitespace-only text.
C10_NoEmptyChunk ==
    mode = "run" =>
        \A k \in 1..Len(all_chunks) : Strip(all_chunks[k][1]) # <<>>

\* What a line is expected to add to the aggregated document: the role and
\* the cleaned text of a user or assistant message that is not noise.
Contribution(line) ==
    IF Malformed(line) THEN <<>>
    ELSE LET msg == Get(line, "message", line)
             role == Get(msg, "role", JStr(<<>>))
             raw == extract_text_from_content(Get(msg, "content", JStr(<<>>))).text
         IN IF role \in {JStr(ROLE_USER), JStr(ROLE_ASSISTANT)} /\ ~is_noise(raw)
            THEN << [label |-> IF role = JStr(ROLE_USER)
                               THEN <<"[", "U", "s", "e", "r", "]", ":", " ">>
                               ELSE <<"[", "A", "s", "s", "i", "s", "t", "a", "n", "t", "]", ":", " ">>,
                     text |-> clean_text(raw)] >>
            ELSE <<>>

ContributionOf == [line \in SessionLines |-> Contribution(line)]

\* The labelled messages expected of the lines read, in file order; with
\* min_len, only those whose cleaned text has at least that length.
RECURSIVE ExpectedMessages(_, _)
ExpectedMessages(lines, min_len) ==
    IF lines = <<>> THEN <<>>
    ELSE LET c == ContributionOf[Head(lines)]
         IN (IF c # <<>> /\ Len(c[1].text) >= min_len
             THEN <<c[1].label \o c[1].text>>
             ELSE <<>>) \o ExpectedMessages(Tail(lines), min_len)

DocumentFed == mode = "run" /\ pc = "file_done" /\ full_text # <<>>

\* C8 as stated: the document fed to the chunker holds exactly the messages
\* of role user or assistant that are not noise, in file order, each under
\* the label of its role, joined by a blank line, and every chunk of the file
\* carries the provenance session:<basename>.
C8_AggregatedDocumentAsStated ==
    DocumentFed =>
        /\ full_text = Join(ExpectedMessages(lines_read, 0), PARA_SEP)
        /\ \A k \in 1..Len(file_chunks) : file_chunks[k][2] = SESSION_TAG \o cur_file

\* C8 as amended: the same, of the messages of role user or assistant that
\* are not noise and whose cleaned text has at least the minimum message
\* length.
C8_AggregatedDocument ==
    DocumentFed =>
        /\ full_text = Join(ExpectedMessages(lines_read, MIN_MSG_LEN), PARA_SEP)
        /\ file_chunks # <<>>
        /\ \A k \in 1..Len(file_chunks) : file_chunks[k][2] = SESSION_TAG \o cur_file

\* A document fed for a file that held an assistant message and a message
\* that is not noise but too short once cleaned.
C8_Witness ==
    /\ DocumentFed
    /\ file_chunks # <<>>
    /\ \E k \in 1..Len(lines_read) : lines_read[k] = LINE_ASSISTANT
    /\ \E k \in 1..Len(lines_read) : lines_read[k] = LINE_SHRINKS

====
